---- MODULE Spec2Model ----
(***************************************************************************)
(* TARO: the IDMapper builder (Utils/IDMapper.py), the binary search over  *)
(* the sorted external-id vector and the CSR construction loop             *)
(* (flatbuffers/TestTaroModel.py), as state machines.                      *)
(***************************************************************************)
EXTENDS Integers, Sequences, FiniteSets, TLC

\* ------------------------------------------------------------------ bounds

\* to_external / contains_internal are probed on -MaxProbe .. MaxProbe
MaxProbe == 4

\* External identifiers the construction pipeline may pass to the builder.
Strs == {"A", "B", "C"}

\* Values a caller writes into a dict it holds (test_IDMapper.py:98 writes 999).
CallerVals == {0, 999}

\* Strings a caller writes into a list it reaches (test_IDMapper.py:99-100).
CallerStrs == {"AA", "N"}

Probes == (0 - MaxProbe)..MaxProbe

\* ------------------------------------------------------------- Python data

\* A dict[str, int] is a function whose domain is its key set.
EmptyDict == [k \in {} |-> 0]

DictContains(d, k) == k \in DOMAIN d

DictSet(d, k, v) == [x \in (DOMAIN d) \cup {k} |-> IF x = k THEN v ELSE d[x]]

DictDel(d, k) == [x \in (DOMAIN d) \ {k} |-> d[x]]

\* dict.copy(): a new dict object holding the same items.
DictCopy(d) == [x \in DOMAIN d |-> d[x]]

\* list[i] as Python evaluates it: a negative index counts from the end, and
\* an index outside the list raises IndexError.
ListIndex(l, i) == IF i < 0 THEN i + Len(l) ELSE i

ListInRange(l, i) == 0 <= ListIndex(l, i) /\ ListIndex(l, i) < Len(l)

ListGet(l, i) ==
    IF ListInRange(l, i)
    THEN [kind |-> "ok", sval |-> l[ListIndex(l, i) + 1]]
    ELSE [kind |-> "IndexError", sval |-> ""]

\* ------------------------------------------------------------------ state

VARIABLES
    dicts,       \* the heap of dict objects, by reference
    str_to_int,  \* self._str_to_int: a reference into dicts
    int_to_str,  \* self._int_to_str: the reverse list
    exported,    \* the reference the caller got from export_mappings, or NoRef
    last,        \* the last call: operation, argument, outcome
    seen,        \* history: the externals passed to get_or_create so far
    firstId      \* history: the id get_or_create returned first, per external

mapperVars == <<dicts, str_to_int, int_to_str, exported, last, seen, firstId>>

VARIABLES
    external_ids,  \* the vector the IdMapping table holds
    ext_id,        \* the argument of find_internal_id
    left, right,   \* the search window
    spc,           \* "idle" | "call" | "loop" | "done"
    result         \* the value returned

searchVars == <<external_ids, ext_id, left, right, spc, result>>

VARIABLES
    first_edge,    \* the offsets list
    edge_target,   \* the targets list
    weights,       \* the weights list
    current_edge,  \* the running edge count
    node,          \* the outer loop's variable
    remaining,     \* iterations the inner loop has left
    cpc,           \* "idle" | "node" | "edges" | "done"
    added          \* history: the targets appended for each node

csrVars == <<first_edge, edge_target, weights, current_edge, node, remaining,
             cpc, added>>

vars == <<mapperVars, searchVars, csrVars>>

Refs == {"d0", "d1"}

NoRef == "none"

\* The record of a call; every field keeps one type over all operations.
Call(op, sarg, iarg, kind, ires, sres, bres) ==
    [op |-> op, sarg |-> sarg, iarg |-> iarg, kind |-> kind,
     ires |-> ires, sres |-> sres, bres |-> bres]

forward == dicts[str_to_int]

\* ------------------------------------------------------- IDMapper methods

IDMapperInit ==
    /\ dicts = [r \in Refs |-> EmptyDict]
    /\ str_to_int = "d0"
    /\ int_to_str = <<>>

\* get_or_create without line 23: the new id is never stored in the dict.
get_or_create_unstored(d, l, external_id) ==
    IF DictContains(d, external_id)
    THEN [dict |-> d, list |-> l, ret |-> d[external_id]]
    ELSE [dict |-> d, list |-> Append(l, external_id), ret |-> Len(l)]

\* get_or_create appending the wrong way round: the new external is put first.
get_or_create_prepend(d, l, external_id) ==
    IF DictContains(d, external_id)
    THEN [dict |-> d, list |-> l, ret |-> d[external_id]]
    ELSE [dict |-> DictSet(d, external_id, Len(l)),
          list |-> <<external_id>> \o l, ret |-> Len(l)]

\* get_or_create numbering from one: new_id = len(list) + 1.
get_or_create_from_one(d, l, external_id) ==
    IF DictContains(d, external_id)
    THEN [dict |-> d, list |-> l, ret |-> d[external_id]]
    ELSE [dict |-> DictSet(d, external_id, Len(l) + 1),
          list |-> Append(l, external_id), ret |-> Len(l) + 1]

get_or_create(d, l, external_id) ==
    IF DictContains(d, external_id)
    THEN [dict |-> d, list |-> l, ret |-> d[external_id]]
    ELSE LET new_id == Len(l)
         IN  [dict |-> DictSet(d, external_id, new_id),
              list |-> Append(l, external_id),
              ret  |-> new_id]

\* to_internal as dict.get(external_id, -1): a default instead of KeyError.
to_internal_default(d, external_id) ==
    IF DictContains(d, external_id)
    THEN [kind |-> "ok", ival |-> d[external_id]]
    ELSE [kind |-> "ok", ival |-> 0 - 1]

to_internal(d, external_id) ==
    IF DictContains(d, external_id)
    THEN [kind |-> "ok", ival |-> d[external_id]]
    ELSE [kind |-> "KeyError", ival |-> 0]

\* to_external without the guard of lines 40-41: raw list indexing.
to_external_unguarded(l, internal_id) == ListGet(l, internal_id)

to_external(l, internal_id) ==
    IF internal_id < 0
    THEN [kind |-> "IndexError", sval |-> ""]
    ELSE ListGet(l, internal_id)

contains_external(d, external_id) == DictContains(d, external_id)

contains_internal(l, internal_id) == 0 <= internal_id /\ internal_id < Len(l)

size(l) == Len(l)

\* export_mappings returning self._str_to_int itself, not a copy.
export_mappings_alias(heap, self) == [heap |-> heap, ret |-> self]

\* The copy is a new dict object; the caller holds only the latest one.
export_mappings(heap, self) ==
    [heap |-> [heap EXCEPT !["d1"] = DictCopy(heap[self])], ret |-> "d1"]

\* What the public queries answer in the current state.
Observe ==
    [ti |-> [x \in Strs |-> to_internal(forward, x)],
     te |-> [i \in Probes |-> to_external(int_to_str, i)],
     ce |-> [x \in Strs |-> contains_external(forward, x)],
     ci |-> [i \in Probes |-> contains_internal(int_to_str, i)],
     sz |-> size(int_to_str)]

\* ------------------------------------------------------- IDMapper actions

MapperInit ==
    /\ IDMapperInit
    /\ exported = NoRef
    /\ last = Call("init", "", 0, "ok", 0, "", FALSE)
    /\ seen = {}
    /\ firstId = EmptyDict

GetOrCreate(x) ==
    LET r == get_or_create(forward, int_to_str, x)
    IN  /\ dicts' = [dicts EXCEPT ![str_to_int] = r.dict]
        /\ int_to_str' = r.list
        /\ last' = Call("get_or_create", x, 0, "ok", r.ret, "", FALSE)
        /\ seen' = seen \cup {x}
        /\ firstId' = IF x \in DOMAIN firstId THEN firstId
                      ELSE DictSet(firstId, x, r.ret)
        /\ UNCHANGED <<str_to_int, exported, searchVars, csrVars>>

ToInternal(x) ==
    LET r == to_internal(forward, x)
    IN  /\ last' = Call("to_internal", x, 0, r.kind, r.ival, "", FALSE)
        /\ UNCHANGED <<dicts, str_to_int, int_to_str, exported, seen, firstId,
                       searchVars, csrVars>>

ToExternal(i) ==
    LET r == to_external(int_to_str, i)
    IN  /\ last' = Call("to_external", "", i, r.kind, 0, r.sval, FALSE)
        /\ UNCHANGED <<dicts, str_to_int, int_to_str, exported, seen, firstId,
                       searchVars, csrVars>>

ContainsExternal(x) ==
    /\ last' = Call("contains_external", x, 0, "ok", 0, "",
                    contains_external(forward, x))
    /\ UNCHANGED <<dicts, str_to_int, int_to_str, exported, seen, firstId,
                       searchVars, csrVars>>

ContainsInternal(i) ==
    /\ last' = Call("contains_internal", "", i, "ok", 0, "",
                    contains_internal(int_to_str, i))
    /\ UNCHANGED <<dicts, str_to_int, int_to_str, exported, seen, firstId,
                       searchVars, csrVars>>

Size ==
    /\ last' = Call("size", "", 0, "ok", size(int_to_str), "", FALSE)
    /\ UNCHANGED <<dicts, str_to_int, int_to_str, exported, seen, firstId,
                       searchVars, csrVars>>

ExportMappings ==
    LET r == export_mappings(dicts, str_to_int)
    IN  /\ dicts' = r.heap
        /\ exported' = r.ret
        /\ last' = Call("export_mappings", "", 0, "ok", 0, "", FALSE)
        /\ UNCHANGED <<str_to_int, int_to_str, seen, firstId, searchVars, csrVars>>

\* The caller adds or changes an entry of the mapping it got from the export.
ExportedSet(k, v) ==
    /\ exported # NoRef
    /\ dicts' = [dicts EXCEPT ![exported] = DictSet(@, k, v)]
    /\ last' = Call("exported_set", k, v, "ok", 0, "", FALSE)
    /\ UNCHANGED <<str_to_int, int_to_str, exported, seen, firstId, searchVars, csrVars>>

\* The caller removes an entry of the mapping it got from the export.
ExportedDel(k) ==
    /\ exported # NoRef
    /\ DictContains(dicts[exported], k)
    /\ dicts' = [dicts EXCEPT ![exported] = DictDel(@, k)]
    /\ last' = Call("exported_del", k, 0, "ok", 0, "", FALSE)
    /\ UNCHANGED <<str_to_int, int_to_str, exported, seen, firstId, searchVars, csrVars>>

MapperNext ==
    \/ \E x \in Strs : GetOrCreate(x)
    \/ \E x \in Strs : ToInternal(x)
    \/ \E i \in Probes : ToExternal(i)
    \/ \E x \in Strs : ContainsExternal(x)
    \/ \E i \in Probes : ContainsInternal(i)
    \/ Size
    \/ ExportMappings
    \/ \E k \in Strs, v \in CallerVals : ExportedSet(k, v)
    \/ \E k \in Strs : ExportedDel(k)


\* --------------------------------------------- direct access to the fields

\* The attributes __init__ gives a mapper (IDMapper.py:9 and :11).
Attrs == {"_str_to_int", "_int_to_str"}

\* mapper.<attr>[k] = v from outside the class. Python has no private fields:
\* the attribute lookup raises AttributeError only for a name the object does
\* not have, and otherwise the dict the mapper uses is written in place.
setitem_dict(heap, self, attr, k, v) ==
    IF attr \notin Attrs
    THEN [kind |-> "AttributeError", heap |-> heap]
    ELSE [kind |-> "ok", heap |-> [heap EXCEPT ![self] = DictSet(@, k, v)]]

\* mapper.<attr>[i] = v on the reverse list: list assignment never grows the
\* list; an index outside it raises IndexError.
setitem_list(l, attr, i, v) ==
    IF attr \notin Attrs
    THEN [kind |-> "AttributeError", list |-> l]
    ELSE IF ListInRange(l, i)
         THEN [kind |-> "ok", list |-> [l EXCEPT ![ListIndex(l, i) + 1] = v]]
         ELSE [kind |-> "IndexError", list |-> l]

DirectDictSet(attr, k, v) ==
    LET r == setitem_dict(dicts, str_to_int, attr, k, v)
    IN  /\ dicts' = r.heap
        /\ last' = Call("direct_dict_set", k, v, r.kind, 0, attr, FALSE)
        /\ UNCHANGED <<str_to_int, int_to_str, exported, seen, firstId, searchVars, csrVars>>

DirectListSet(attr, i, v) ==
    LET r == setitem_list(int_to_str, attr, i, v)
    IN  /\ int_to_str' = r.list
        /\ last' = Call("direct_list_set", v, i, r.kind, 0, attr, FALSE)
        /\ UNCHANGED <<dicts, str_to_int, exported, seen, firstId, searchVars, csrVars>>

DirectOps == {"direct_dict_set", "direct_list_set"}

\* The mapper's methods the test calls, and the writes it attempts.
DirectNext ==
    \/ \E x \in Strs : GetOrCreate(x)
    \/ \E i \in 0..1 : ToExternal(i)
    \/ \E x \in Strs : ContainsExternal(x)
    \/ \E i \in 0..1 : ContainsInternal(i)
    \/ Size
    \/ \E attr \in {"_ext_to_int", "_str_to_int"}, k \in Strs :
          DirectDictSet(attr, k, 999)
    \/ \E i \in 0..1, v \in CallerStrs : DirectListSet("_int_to_str", i, v)


\* ------------------------------------------ find_internal_id (binary search)

MaxLen == 3

MaxVal == 3

NotFound == -1

IdVals == (0 - 1)..MaxVal

IdArrays == UNION {IF n = 0 THEN {<<>>} ELSE [1..n -> IdVals] : n \in 0..MaxLen}

ExternalIdsLength(arr) == Len(arr)

\* The generated accessor: element j, counted from zero.
ExternalIds(arr, j) == arr[j + 1]

StrictlyAscending(arr) == \A i \in 1..(Len(arr) - 1) : arr[i] < arr[i + 1]

\* The loop body with the comparison of line 109 inverted.
search_step_inverted(arr, x, l, r) ==
    LET mid == (l + r) \div 2
        mid_val == ExternalIds(arr, mid)
    IN  IF mid_val = x
        THEN [left |-> l, right |-> r, done |-> TRUE, ret |-> mid]
        ELSE IF mid_val > x
             THEN [left |-> mid + 1, right |-> r, done |-> FALSE, ret |-> 0]
             ELSE [left |-> l, right |-> mid - 1, done |-> FALSE, ret |-> 0]

\* The loop body with left = mid for left = mid + 1.
search_step_no_progress(arr, x, l, r) ==
    LET mid == (l + r) \div 2
        mid_val == ExternalIds(arr, mid)
    IN  IF mid_val = x
        THEN [left |-> l, right |-> r, done |-> TRUE, ret |-> mid]
        ELSE IF mid_val < x
             THEN [left |-> mid, right |-> r, done |-> FALSE, ret |-> 0]
             ELSE [left |-> l, right |-> mid - 1, done |-> FALSE, ret |-> 0]

\* One iteration of the while loop, entered with l <= r.
search_step(arr, x, l, r) ==
    LET mid == (l + r) \div 2
        mid_val == ExternalIds(arr, mid)
    IN  IF mid_val = x
        THEN [left |-> l, right |-> r, done |-> TRUE, ret |-> mid]
        ELSE IF mid_val < x
             THEN [left |-> mid + 1, right |-> r, done |-> FALSE, ret |-> 0]
             ELSE [left |-> l, right |-> mid - 1, done |-> FALSE, ret |-> 0]

SearchIdle ==
    /\ external_ids = <<>>
    /\ ext_id = 0
    /\ left = 0
    /\ right = 0
    /\ spc = "idle"
    /\ result = 0

SearchInit ==
    /\ external_ids \in IdArrays
    /\ ext_id \in IdVals
    /\ left = 0
    /\ right = 0
    /\ spc = "call"
    /\ result = 0

FindBegin ==
    /\ spc = "call"
    /\ left' = 0
    /\ right' = ExternalIdsLength(external_ids) - 1
    /\ spc' = "loop"
    /\ UNCHANGED <<external_ids, ext_id, result, mapperVars, csrVars>>

FindStep ==
    /\ spc = "loop"
    /\ left <= right
    /\ LET s == search_step(external_ids, ext_id, left, right)
       IN  /\ left' = s.left
           /\ right' = s.right
           /\ spc' = IF s.done THEN "done" ELSE "loop"
           /\ result' = IF s.done THEN s.ret ELSE result
    /\ UNCHANGED <<external_ids, ext_id, mapperVars, csrVars>>

FindExit ==
    /\ spc = "loop"
    /\ left > right
    /\ result' = NotFound
    /\ spc' = "done"
    /\ UNCHANGED <<external_ids, ext_id, left, right, mapperVars, csrVars>>

SearchNext == FindBegin \/ FindStep \/ FindExit


\* ----------------------------------------------------- CSR construction

\* node_count and edge_count of the benchmark, scaled down.
NodeCount == 3

EdgeCount == 3

\* random.randint(0, 10), scaled down.
MaxDegree == 2

\* random.random() * 100, as a small set of values.
MaxWeight == 1

Min(a, b) == IF a < b THEN a ELSE b

\* Closing a node by recording its degree instead of the running count.
close_node_degree(fe, cur, deg) == Append(fe, deg)

\* Line 184, after the node's inner loop: deg is what the loop appended.
close_node(fe, cur, deg) == Append(fe, cur)

\* Lines 176-177.
clamp_degree(degree, cur) == Min(degree, EdgeCount - cur)

\* FirstEdge(j), EdgeTarget(e), BaseWeights(e): elements counted from zero.
FirstEdge(fe, j) == fe[j + 1]

EdgeTarget(et, e) == et[e + 1]

\* The neighbour loop: for e in range(FirstEdge(n), FirstEdge(n + 1)).
Neighbors(fe, et, n) ==
    LET edge_start == FirstEdge(fe, n)
        edge_end == FirstEdge(fe, n + 1)
    IN  [k \in 1..(IF edge_end > edge_start THEN edge_end - edge_start ELSE 0)
            |-> EdgeTarget(et, edge_start + k - 1)]

CsrIdle ==
    /\ first_edge = <<>>
    /\ edge_target = <<>>
    /\ weights = <<>>
    /\ current_edge = 0
    /\ node = 0
    /\ remaining = 0
    /\ cpc = "idle"
    /\ added = <<>>

CsrInit ==
    /\ first_edge = <<0>>
    /\ edge_target = <<>>
    /\ weights = <<>>
    /\ current_edge = 0
    /\ node = 0
    /\ remaining = 0
    /\ cpc = "node"
    /\ added = <<>>

CsrPickDegree(degree) ==
    /\ cpc = "node"
    /\ node < NodeCount
    /\ remaining' = clamp_degree(degree, current_edge)
    /\ added' = Append(added, <<>>)
    /\ cpc' = "edges"
    /\ UNCHANGED <<first_edge, edge_target, weights, current_edge, node,
                 mapperVars, searchVars>>

CsrAddEdge(target, w) ==
    /\ cpc = "edges"
    /\ remaining > 0
    /\ edge_target' = Append(edge_target, target)
    /\ weights' = Append(weights, w)
    /\ current_edge' = current_edge + 1
    /\ remaining' = remaining - 1
    /\ added' = [added EXCEPT ![node + 1] = Append(@, target)]
    /\ UNCHANGED <<first_edge, node, cpc,
                 mapperVars, searchVars>>

CsrCloseNode ==
    /\ cpc = "edges"
    /\ remaining = 0
    /\ first_edge' = close_node(first_edge, current_edge, Len(added[node + 1]))
    /\ node' = node + 1
    /\ cpc' = "node"
    /\ UNCHANGED <<edge_target, weights, current_edge, remaining, added,
                 mapperVars, searchVars>>

CsrFinish ==
    /\ cpc = "node"
    /\ node = NodeCount
    /\ cpc' = "done"
    /\ UNCHANGED <<first_edge, edge_target, weights, current_edge, node,
                   remaining, added,
                 mapperVars, searchVars>>

CsrNext ==
    \/ \E degree \in 0..MaxDegree : CsrPickDegree(degree)
    \/ \E target \in 0..(NodeCount - 1), w \in 0..MaxWeight : CsrAddEdge(target, w)
    \/ CsrCloseNode
    \/ CsrFinish


\* ---------------------------------------------------------- specifications

\* The builder under its public operations, and the caller's use of an export.
Init == MapperInit /\ SearchIdle /\ CsrIdle

Next == MapperNext

Spec == Init /\ [][Next]_vars

\* The builder with a caller that also writes to its fields.
DirectSpec == Init /\ [][DirectNext]_vars

\* One call of find_internal_id on any array and any id.
SearchStart == MapperInit /\ SearchInit /\ CsrIdle

SearchSpec == SearchStart /\ [][SearchNext]_vars

\* The same call as it runs: a sequential loop takes its next step.
SearchLive == SearchSpec /\ WF_vars(SearchNext)

\* The CSR construction loop.
CsrStart == MapperInit /\ SearchIdle /\ CsrInit

CsrSpec == CsrStart /\ [][CsrNext]_vars

\* ------------------------------------------------------------------ claims

registered == DOMAIN forward

assigned == {forward[x] : x \in registered}

builderState == <<dicts[str_to_int], str_to_int, int_to_str>>

\* C1: over any sequence of get_or_create calls from the empty mapper, a call
\* returns the id the first call with that external returned, whatever calls
\* came between, and size() is the number of distinct externals passed so far.
C1_SameIdAndSize ==
    /\ last.op = "get_or_create" => last.ires = firstId[last.sarg]
    /\ \A x \in seen : to_internal(forward, x) = [kind |-> "ok", ival |-> firstId[x]]
    /\ size(int_to_str) = Cardinality(seen)

\* C1 witness: "A" is passed again after two other externals were registered
\* and gets its first id, 0, back.
C1_Witness ==
    /\ last.op = "get_or_create"
    /\ last.sarg = "A"
    /\ last.ires = 0
    /\ Cardinality(seen) = 3

\* C2: the forward map and the reverse list are mutual inverses: equal
\* lengths, reverse[forward[x]] = x for every registered x, and to_external
\* of an id get_or_create returned is the external it was returned for, also
\* after later get_or_create calls with other strings.
C2_MutualInverse ==
    /\ Len(int_to_str) = Cardinality(registered)
    /\ \A x \in registered :
          to_external(int_to_str, forward[x]) = [kind |-> "ok", sval |-> x]
    /\ \A i \in 0..(Len(int_to_str) - 1) :
          to_internal(forward, int_to_str[i + 1]) = [kind |-> "ok", ival |-> i]
    /\ \A x \in seen :
          to_external(int_to_str, firstId[x]) = [kind |-> "ok", sval |-> x]
    /\ last.op = "get_or_create" =>
          to_external(int_to_str, last.ires) = [kind |-> "ok", sval |-> last.sarg]

\* C2 witness: three externals are registered, the last one just now.
C2_Witness ==
    /\ Len(int_to_str) = 3
    /\ last.op = "get_or_create"
    /\ last.ires = 2

\* C3: to_external(i) raises IndexError for every negative i and every
\* i >= size(), returns the string at i exactly when 0 <= i < size(), and a
\* failing call leaves the mapper as it was.
C3_ToExternalRange ==
    /\ [](last.op = "to_external" =>
            IF 0 <= last.iarg /\ last.iarg < size(int_to_str)
            THEN last.kind = "ok" /\ last.sres = int_to_str[last.iarg + 1]
            ELSE last.kind = "IndexError")
    /\ [][last'.op = "to_external" /\ last'.kind # "ok" =>
            builderState' = builderState /\ Observe' = Observe]_vars

\* C3 witness: to_external(-1) on a mapper that holds entries raised IndexError.
C3_Witness ==
    /\ last.op = "to_external"
    /\ last.iarg = 0 - 1
    /\ last.kind = "IndexError"
    /\ Len(int_to_str) >= 2

\* C4: to_internal(x) raises KeyError for every x never passed to
\* get_or_create, returns no default, and registers nothing.
C4_ToInternalNotFound ==
    /\ [](last.op = "to_internal" =>
            IF last.sarg \in seen
            THEN last.kind = "ok" /\ last.ires = firstId[last.sarg]
            ELSE last.kind = "KeyError")
    /\ [][last'.op = "to_internal" /\ last'.kind # "ok" =>
            builderState' = builderState /\ Observe' = Observe]_vars

\* C4 witness: a lookup of a never-registered external on a non-empty mapper
\* raised KeyError.
C4_Witness ==
    /\ last.op = "to_internal"
    /\ last.sarg \notin seen
    /\ last.kind = "KeyError"
    /\ Len(int_to_str) >= 1

\* C5: the mapping export_mappings returned is independent of the builder:
\* adding, changing or removing its entries changes no answer of the builder's
\* queries, and a later get_or_create on the builder leaves it as it was.
C5_ExportIsolated ==
    [][/\ last'.op \in {"exported_set", "exported_del"} =>
            builderState' = builderState /\ Observe' = Observe
       /\ last'.op = "get_or_create" /\ exported # NoRef =>
            dicts'[exported] = dicts[exported]]_vars

\* C5 witness: the caller added "C" to an exported mapping while the builder
\* does not hold "C", and the builder went on to register another external.
C5_Witness ==
    /\ exported # NoRef
    /\ DictContains(dicts[exported], "C")
    /\ ~contains_external(forward, "C")
    /\ last.op = "get_or_create"
    /\ ~DictContains(dicts[exported], last.sarg)

\* C8: after get_or_create("A"), a caller's write to the mapper's forward map
\* or reverse list fails or has no effect: no answer of the mapper's queries
\* changes (to_external(id_A) stays "A", contains_external("C") stays false,
\* size() stays 1).
C8_InternalsProtected ==
    [][last'.op \in DirectOps /\ "A" \in seen => Observe' = Observe]_vars

\* C9: get_or_create hands out dense ids in first-insertion order: a new
\* external gets the size() of before the call and size() grows by one, a
\* registered one changes nothing; the assigned ids are exactly
\* 0 .. size()-1 without duplicates, contains_internal holds for exactly
\* those, and an assigned id never changes.
C9_DenseIds ==
    /\ [](/\ assigned = 0..(size(int_to_str) - 1)
          /\ Cardinality(registered) = Cardinality(assigned)
          /\ \A i \in Probes : contains_internal(int_to_str, i) <=> i \in assigned)
    /\ [][/\ last'.op = "get_or_create" =>
               IF last'.sarg \in registered
               THEN builderState' = builderState
                    /\ last'.ires = forward[last'.sarg]
               ELSE last'.ires = size(int_to_str)
                    /\ size(int_to_str') = size(int_to_str) + 1
          /\ \A x \in registered :
               x \in DOMAIN dicts'[str_to_int'] /\ dicts'[str_to_int'][x] = forward[x]]_vars

\* C9 witness: the third distinct external got id 2.
C9_Witness ==
    /\ last.op = "get_or_create"
    /\ last.ires = 2
    /\ assigned = {0, 1, 2}

Positions(arr, x) == {p \in 0..(Len(arr) - 1) : ExternalIds(arr, p) = x}

\* C6: on a strictly ascending array (the empty one included) and any id,
\* find_internal_id returns the one position holding the id when the array
\* holds it, and -1, which is no position, when it does not.
C6_FindInSorted ==
    (spc = "done" /\ StrictlyAscending(external_ids)) =>
        /\ Cardinality(Positions(external_ids, ext_id)) <= 1
        /\ IF Positions(external_ids, ext_id) # {}
           THEN Positions(external_ids, ext_id) = {result}
           ELSE result = NotFound
        /\ NotFound \notin 0..(Len(external_ids) - 1)

\* C6 witness: the id at the last position of a full-length ascending array
\* was found.
C6_Witness ==
    /\ spc = "done"
    /\ StrictlyAscending(external_ids)
    /\ Len(external_ids) = 3
    /\ result = 2

\* C10: on any array, sorted or not, the search loop ends, it reads only
\* positions of the array, and a result that is not -1 is a position that
\* holds the id: an unsorted array can hide an id, never yield a wrong index.
C10_SoundOnAnyArray ==
    /\ [](spc = "loop" /\ left <= right =>
            0 <= (left + right) \div 2 /\ (left + right) \div 2 < Len(external_ids))
    /\ [](spc = "done" =>
            \/ result = NotFound
            \/ /\ 0 <= result
               /\ result < Len(external_ids)
               /\ ExternalIds(external_ids, result) = ext_id)
    /\ <>(spc = "done")

\* C10 witness: an unsorted array that holds the id, and the search answered -1.
C10_Witness ==
    /\ spc = "done"
    /\ ~StrictlyAscending(external_ids)
    /\ Positions(external_ids, ext_id) # {}
    /\ result = NotFound

closed == 0..(Len(first_edge) - 2)

\* C7: first_edge starts at 0, never decreases, ends at the number of
\* entries of edge_target and of base_weights, has node_count + 1 entries
\* once built; each node's slice of edge_target is exactly the edges added
\* for it, and a node without out-edges has an empty range.
C7_CsrLayout ==
    /\ FirstEdge(first_edge, 0) = 0
    /\ \A i \in 1..(Len(first_edge) - 1) : first_edge[i] <= first_edge[i + 1]
    /\ cpc \in {"node", "done"} =>
          /\ first_edge[Len(first_edge)] = Len(edge_target)
          /\ first_edge[Len(first_edge)] = Len(weights)
    /\ cpc = "done" => Len(first_edge) = NodeCount + 1
    /\ \A n \in closed :
          /\ Neighbors(first_edge, edge_target, n) = added[n + 1]
          /\ added[n + 1] = <<>> =>
                FirstEdge(first_edge, n) = FirstEdge(first_edge, n + 1)

\* C7 witness: a finished build with a node of two edges and a node of none.
C7_Witness ==
    /\ cpc = "done"
    /\ \E n \in closed : Len(added[n + 1]) = 2
    /\ \E n \in closed : added[n + 1] = <<>> /\ FirstEdge(first_edge, n) > 0

====
